---- MODULE Spec2Model ----
(***************************************************************************)
(* A model of the Bolt v1 client of src/src/client: the chunked framing    *)
(* (send_message, read_message), the version handshake, the session calls  *)
(* connect/init/run of BoltSession, and the PackStream encoders of mod.rs  *)
(* (DataKind::serialize) and of serialize.rs.                              *)
(*                                                                         *)
(* Five specifications share the variables:                                *)
(*   Spec            one client driving one TCP connection against a       *)
(*                   server                                                *)
(*   SpecFraming     send_message on one message, its bytes looped back    *)
(*                   into read_message                                     *)
(*   SpecCodec       an encoder of serialize.rs or of mod.rs applied to    *)
(*                   one value                                             *)
(*   SpecInbound     read_message applied twice to a peer's chunks         *)
(*   SpecShortWrite  the handshake and send_message on a socket that takes *)
(*                   part of a buffer per write call                       *)
(***************************************************************************)
EXTENDS Integers, Sequences, FiniteSets, TLC

VARIABLES
    pc,        \* where the caller stands (which call is blocked, or returned)
    username,  \* connect's argument
    password,  \* connect's argument
    outbound,  \* TcpStream: every byte the client has written, in order
    inbound,   \* TcpStream: bytes the peer has sent and the client has not read
    nread,     \* TcpStream: number of bytes the client has read so far
    version,   \* handshake's local `version` (-1 before it is read)
    message,   \* the local `message` of init/run: what read_message returned
    result,    \* what the last call gave its caller: none, Ok, Err or Panic
    session,   \* TRUE while a BoltSession value exists
    closed,    \* TRUE once the TcpStream has been dropped
    pending,   \* requests on the wire the peer has not answered yet
    runs,      \* number of run calls made
    request,   \* kind of the last request written: none, Init or Run
    arg,       \* SpecFraming, SpecCodec: the argument of the function applied
    output,    \* SpecCodec: the bytes the encoder returned
    build,     \* the build profile: "debug" (overflow checks on) or "release"
    accepts    \* TcpStream: the most bytes one write call takes, None for all

vars == <<pc, username, password, outbound, inbound, nread, version, message,
          result, session, closed, pending, runs, request, arg, output, build,
          accepts>>

(***************************************************************************)
(* Byte strings.  A Vec<u8>, a &[u8], the bytes of a String and the bytes  *)
(* on a stream are all kept run-length encoded: a sequence of runs         *)
(* <<byte, count>> with count >= 1 and no two neighbouring runs of the     *)
(* same byte, so that equal byte strings are equal values and a 65536-byte *)
(* message is a short value.  Bytes(<<\h60, \h60, \hB0>>) is the byte      *)
(* string 60 60 B0.                                                        *)
(***************************************************************************)

\* Vec::append / Vec::extend_from_slice: a followed by b.
Cat(a, b) ==
    IF a = <<>> THEN b
    ELSE IF b = <<>> THEN a
    ELSE LET la == a[Len(a)]
             fb == b[1]
         IN  IF la[1] = fb[1]
             THEN SubSeq(a, 1, Len(a) - 1) \o <<<<la[1], la[2] + fb[2]>>>> \o Tail(b)
             ELSE a \o b

\* vec![b; n]: n copies of byte b.
Fill(b, n) == IF n <= 0 THEN <<>> ELSE <<<<b, n>>>>

\* An array or vec! literal: the byte string of the plain sequence s.
RECURSIVE Bytes(_)
Bytes(s) == IF s = <<>> THEN <<>> ELSE Cat(Fill(Head(s), 1), Bytes(Tail(s)))

\* len(): the number of bytes.
RECURSIVE BLen(_)
BLen(s) == IF s = <<>> THEN 0 ELSE s[1][2] + BLen(Tail(s))

\* &s[..k]: the first k bytes (all of s when it is shorter).
RECURSIVE Take(_, _)
Take(s, k) ==
    IF k <= 0 \/ s = <<>> THEN <<>>
    ELSE IF s[1][2] <= k THEN <<s[1]>> \o Take(Tail(s), k - s[1][2])
    ELSE <<<<s[1][1], k>>>>

\* &s[k..]: s without its first k bytes.
RECURSIVE Drop(_, _)
Drop(s, k) ==
    IF k <= 0 \/ s = <<>> THEN s
    ELSE IF s[1][2] <= k THEN Drop(Tail(s), k - s[1][2])
    ELSE <<<<s[1][1], s[1][2] - k>>>> \o Tail(s)

\* s[i - 1]: the i-th byte, counting from 1.
RECURSIVE At(_, _)
At(s, i) == IF i <= s[1][2] THEN s[1][1] ELSE At(Tail(s), i - s[1][2])

(***************************************************************************)
(* byteorder::BigEndian on fixed-width unsigned integers.                  *)
(***************************************************************************)
U16_MAX == 65535

write_u16(n) == Bytes(<<(n \div 256) % 256, n % 256>>)

read_u16(buf) == At(buf, 1) * 256 + At(buf, 2)

write_u32(n) ==
    Bytes(<<(n \div 16777216) % 256, (n \div 65536) % 256, (n \div 256) % 256, n % 256>>)

read_u32(buf) ==
    At(buf, 1) * 16777216 + At(buf, 2) * 65536 + At(buf, 3) * 256 + At(buf, 4)

\* An Option: Some(x) is <<x>>, None is <<>>, and unwrap takes the x.
Some(x) == <<x>>
None == <<>>
unwrap(o) == o[1]

(***************************************************************************)
(* The TcpStream.  write appends to the client-to-server bytes and returns *)
(* Ok(n), n being how many bytes of buf the socket took; its callers drop  *)
(* the n.  A socket with room takes the whole buffer (accepts = None); one *)
(* short of room takes the first unwrap(accepts) bytes.                    *)
(***************************************************************************)
write(stream, buf) ==
    IF accepts = None THEN Cat(stream, buf)
    ELSE Cat(stream, Take(buf, unwrap(accepts)))

\* read_exact(n) succeeds when n bytes have arrived.
can_read_exact(stream, n) == BLen(stream) >= n

(***************************************************************************)
(* Chunked framing.                                                        *)
(***************************************************************************)

\* slice::chunks(size): consecutive slices of `size` bytes, the last one
\* shorter; no slice at all for an empty message.
RECURSIVE chunks(_, _)
chunks(msg, size) ==
    IF BLen(msg) = 0 THEN <<>>
    ELSE <<Take(msg, size)>> \o chunks(Drop(msg, size), size)

\* The body of send_message's for loop, once per chunk: the header, the
\* chunk, then a zero header.
RECURSIVE send_chunks(_, _)
send_chunks(stream, cs) ==
    IF cs = <<>> THEN stream
    ELSE LET chunk      == Head(cs)
             chunk_size == BLen(chunk) % (U16_MAX + 1)
             s1 == write(stream, write_u16(chunk_size))
             s2 == write(s1, chunk)
             s3 == write(s2, Bytes(<<\h0, \h0>>))
         IN  send_chunks(s3, Tail(cs))

\* BoltSession::send_message: the stream after the call.
send_message(stream, msg) == send_chunks(stream, chunks(msg, U16_MAX))

\* read_message with `message = message_chunk` for message.append: each
\* chunk replaces what was assembled.
RECURSIVE read_chunks_keep_last(_, _)
read_chunks_keep_last(stream, msg) ==
    IF ~can_read_exact(stream, 2)
    THEN [ok |-> FALSE, message |-> msg, rest |-> stream]
    ELSE LET message_length == read_u16(Take(stream, 2))
             body           == Drop(stream, 2)
         IN  IF ~can_read_exact(body, message_length)
             THEN [ok |-> FALSE, message |-> msg, rest |-> body]
             ELSE LET message_chunk == Take(body, message_length)
                      rest          == Drop(body, message_length)
                  IN  IF message_length > 0
                      THEN read_chunks_keep_last(rest, message_chunk)
                      ELSE [ok |-> TRUE, message |-> message_chunk, rest |-> rest]

\* BoltSession::read_message on the unread bytes `stream`, `msg` being what
\* the loop has assembled so far: [ok, message, rest].  ok is FALSE when a
\* read_exact finds the bytes missing.
RECURSIVE read_chunks(_, _)
read_chunks(stream, msg) ==
    IF ~can_read_exact(stream, 2)
    THEN [ok |-> FALSE, message |-> msg, rest |-> stream]
    ELSE LET message_length == read_u16(Take(stream, 2))
             body           == Drop(stream, 2)
         IN  IF ~can_read_exact(body, message_length)
             THEN [ok |-> FALSE, message |-> msg, rest |-> body]
             ELSE LET message_chunk == Take(body, message_length)
                      assembled     == Cat(msg, message_chunk)
                      rest          == Drop(body, message_length)
                  IN  IF message_length > 0
                      THEN read_chunks(rest, assembled)
                      ELSE [ok |-> TRUE, message |-> assembled, rest |-> rest]

read_message(stream) == read_chunks(stream, <<>>)

(***************************************************************************)
(* 64-bit integers.  TLC's integers are 32 bits wide, so an i64 is kept as *)
(* its four 16-bit words, most significant first: <<w3, w2, w1, w0>> is    *)
(* w3 * 2^48 + w2 * 2^32 + w1 * 2^16 + w0, with w3 in -32768..32767 (the   *)
(* sign lives there) and w2, w1, w0 in 0..65535.                           *)
(***************************************************************************)

\* The i64 of an integer that fits 32 bits.
I64(v) ==
    <<IF v < 0 THEN -1 ELSE 0, IF v < 0 THEN 65535 ELSE 0, (v \div 65536) % 65536, v % 65536>>

\* a + d for a small d (no overflow check: callers stay inside the range).
I64_Add(a, d) ==
    LET s0 == a[4] + d
        s1 == a[3] + (s0 \div 65536)
        s2 == a[2] + (s1 \div 65536)
        s3 == a[1] + (s2 \div 65536)
    IN  <<s3, s2 % 65536, s1 % 65536, s0 % 65536>>

\* a <= b.
I64_Le(a, b) ==
    \/ a[1] < b[1]
    \/ a[1] = b[1] /\ a[2] < b[2]
    \/ a[1] = b[1] /\ a[2] = b[2] /\ a[3] < b[3]
    \/ a[1] = b[1] /\ a[2] = b[2] /\ a[3] = b[3] /\ a[4] <= b[4]

\* A range pattern lo ... hi.
I64_In(lo, v, hi) == I64_Le(lo, v) /\ I64_Le(v, hi)

I64_MIN == <<-32768, 0, 0, 0>>
I64_MAX == <<32767, 65535, 65535, 65535>>
I32_MIN == I64(-2147483647 - 1)
I32_MAX == I64(2147483647)

\* ToPrimitive::to_i32, to_i16, to_i8: the number, or None out of range.
to_i32(v) ==
    IF I64_In(I32_MIN, v, I32_MAX)
    THEN Some((IF v[3] >= 32768 THEN v[3] - 65536 ELSE v[3]) * 65536 + v[4])
    ELSE None

to_i16(v) ==
    IF I64_In(I64(-32768), v, I64(32767))
    THEN Some(IF v[4] >= 32768 THEN v[4] - 65536 ELSE v[4])
    ELSE None

to_i8(v) ==
    IF I64_In(I64(-128), v, I64(127))
    THEN Some(IF v[4] >= 32768 THEN v[4] - 65536 ELSE v[4])
    ELSE None

\* BigEndian::write_i16, write_i32, write_i64: two's complement, big-endian.
write_i16(n) == write_u16(n % 65536)

write_i32(n) == Cat(write_u16((n \div 65536) % 65536), write_u16(n % 65536))

write_i64(v) ==
    Cat(Cat(write_u16(v[1] % 65536), write_u16(v[2])), Cat(write_u16(v[3]), write_u16(v[4])))

(***************************************************************************)
(* f64.  A float is its IEEE-754 fields [sign, exponent, fraction], the    *)
(* 52-bit fraction in four words <<f3, f2, f1, f0>> with f3 in 0..15.      *)
(***************************************************************************)

\* BigEndian::write_f64: the 64 bits sign, exponent, fraction, first byte first.
write_f64(value) ==
    Cat(Bytes(<<(value.sign * 128) + (value.exponent \div 16),
                ((value.exponent % 16) * 16) + value.fraction[1]>>),
        Cat(write_u16(value.fraction[2]),
            Cat(write_u16(value.fraction[3]), write_u16(value.fraction[4]))))

(***************************************************************************)
(* PackStream values of client/mod.rs.  A value of an enum is a record     *)
(* [kind, value]; a HashMap is the sequence of its <<key, value>> entries  *)
(* in the order its iterator yields them.                                  *)
(*                                                                         *)
(* The serialize methods return a Vec<u8> and can only fail by panicking.  *)
(* A panic unwinds through every serialize call on the stack, so that no   *)
(* buffer is returned: the byte PANIC in a buffer stands for that, and the *)
(* caller of the outermost serialize looks for it (panicked).              *)
(***************************************************************************)
PANIC == -1

panicked(bytes) == \E i \in 1..Len(bytes) : bytes[i][1] = PANIC

\* a + b on u8: with overflow checks (debug) a sum above 255 panics, without
\* them (release) it wraps.
u8_add(a, b) ==
    IF a + b <= 255 THEN a + b
    ELSE IF build = "debug" THEN PANIC
    ELSE (a + b) % 256

\* IntegerKind: TinyInt and Int8 hold an i8, Int16 an i16, Int32 an i32 (all
\* as integers), Int64 an i64 in words.
IntegerKind_get_marker(k) ==
    CASE k.kind = "TinyInt" -> k.value % 256
      [] k.kind = "Int8"    -> \hC8
      [] k.kind = "Int16"   -> \hC9
      [] k.kind = "Int32"   -> \hCA
      [] k.kind = "Int64"   -> \hCB

IntegerKind_serialize(k) ==
    CASE k.kind = "TinyInt" -> Bytes(<<IntegerKind_get_marker(k)>>)
      [] k.kind = "Int8"    -> Bytes(<<IntegerKind_get_marker(k), k.value % 256>>)
      [] k.kind = "Int16"   -> Cat(Bytes(<<IntegerKind_get_marker(k)>>), write_i16(k.value))
      [] k.kind = "Int32"   -> Cat(Bytes(<<IntegerKind_get_marker(k)>>), write_i32(k.value))
      [] k.kind = "Int64"   -> Cat(Bytes(<<IntegerKind_get_marker(k)>>), write_i64(k.value))

\* StringKind::new.  Lengths of this model stay below 2^31, so the arm that
\* gives None (longer than 4294967295 bytes) is never taken.
StringKind_new(s) ==
    LET len == BLen(s)
    IN  IF len <= 15 THEN [kind |-> "TinyString", value |-> s]
        ELSE IF len <= 255 THEN [kind |-> "String8", value |-> s]
        ELSE IF len <= 65535 THEN [kind |-> "String16", value |-> s]
        ELSE [kind |-> "String32", value |-> s]

StringKind_get_marker(k) ==
    CASE k.kind = "TinyString" -> u8_add(\h80, BLen(k.value) % 256)
      [] k.kind = "String8"    -> \hD0
      [] k.kind = "String16"   -> \hD1
      [] k.kind = "String32"   -> \hD2

StringKind_serialize(k) ==
    CASE k.kind = "TinyString" ->
            Cat(Bytes(<<StringKind_get_marker(k)>>), k.value)
      [] k.kind = "String8" ->
            Cat(Bytes(<<StringKind_get_marker(k), BLen(k.value) % 256>>), k.value)
      [] k.kind = "String16" ->
            Cat(Cat(Bytes(<<StringKind_get_marker(k)>>),
                    write_u16(BLen(k.value) % 65536)), k.value)
      [] k.kind = "String32" ->
            Cat(Cat(Bytes(<<StringKind_get_marker(k)>>),
                    write_u32(BLen(k.value))), k.value)

RECURSIVE DataKind_serialize(_)

\* ListKind: the Vec<DataKind> as a sequence.
ListKind_get_marker(k) ==
    CASE k.kind = "TinyList" -> u8_add(\h90, Len(k.value) % 256)
      [] k.kind = "List8"    -> \hD4
      [] k.kind = "List16"   -> \hD5
      [] k.kind = "List32"   -> \hD6

\* The for loop of ListKind::serialize over the entries.
RECURSIVE serialize_items(_)
serialize_items(entries) ==
    IF entries = <<>> THEN <<>>
    ELSE IF Len(entries) = 1 THEN DataKind_serialize(Head(entries))
    ELSE LET mid == Len(entries) \div 2
         IN  Cat(serialize_items(SubSeq(entries, 1, mid)),
                 serialize_items(SubSeq(entries, mid + 1, Len(entries))))

ListKind_serialize(k) ==
    CASE k.kind = "TinyList" ->
            Cat(Bytes(<<ListKind_get_marker(k)>>), serialize_items(k.value))
      [] k.kind = "List8" ->
            Cat(Bytes(<<ListKind_get_marker(k), Len(k.value) % 256>>),
                serialize_items(k.value))
      [] k.kind = "List16" ->
            Cat(Cat(Bytes(<<ListKind_get_marker(k)>>), write_u16(Len(k.value) % 65536)),
                serialize_items(k.value))
      [] k.kind = "List32" ->
            Cat(Cat(Bytes(<<ListKind_get_marker(k)>>), write_u32(Len(k.value))),
                serialize_items(k.value))

\* HashMap::new and HashMap::insert: the entries in insertion order.
HashMap_new == <<>>

HashMap_insert(map, key, value) ==
    IF \E i \in 1..Len(map) : map[i][1] = key
    THEN [i \in 1..Len(map) |-> IF map[i][1] = key THEN <<key, value>> ELSE map[i]]
    ELSE Append(map, <<key, value>>)

\* The orders a HashMap's iterator may yield n entries in: the hasher is
\* keyed at random (RandomState), so every order can occur.
IterationOrders(n) ==
    {f \in [1..n -> 1..n] : \A i, j \in 1..n : f[i] = f[j] => i = j}

HashMap_iter(map, order) == [i \in 1..Len(map) |-> map[order[i]]]

\* MapKind::new on the entries as the map iterates them.
MapKind_new(map) ==
    LET len == Len(map)
    IN  IF len <= 15 THEN [kind |-> "TinyMap", value |-> map]
        ELSE IF len <= 255 THEN [kind |-> "Map8", value |-> map]
        ELSE IF len <= 65535 THEN [kind |-> "Map16", value |-> map]
        ELSE [kind |-> "Map32", value |-> map]

MapKind_get_marker(k) ==
    CASE k.kind = "TinyMap" -> u8_add(\hA0, Len(k.value) % 256)
      [] k.kind = "Map8"    -> \hD8
      [] k.kind = "Map16"   -> \hD9
      [] k.kind = "Map32"   -> \hDA

\* The for loop of MapKind::serialize over the entries.
RECURSIVE serialize_entries(_)
serialize_entries(entries) ==
    IF entries = <<>> THEN <<>>
    ELSE IF Len(entries) = 1
    THEN Cat(StringKind_serialize(Head(entries)[1]), DataKind_serialize(Head(entries)[2]))
    ELSE LET mid == Len(entries) \div 2
         IN  Cat(serialize_entries(SubSeq(entries, 1, mid)),
                 serialize_entries(SubSeq(entries, mid + 1, Len(entries))))

MapKind_serialize(k) ==
    CASE k.kind = "TinyMap" ->
            Cat(Bytes(<<MapKind_get_marker(k)>>), serialize_entries(k.value))
      [] k.kind = "Map8" ->
            Cat(Bytes(<<MapKind_get_marker(k), Len(k.value) % 256>>),
                serialize_entries(k.value))
      [] k.kind = "Map16" ->
            Cat(Cat(Bytes(<<MapKind_get_marker(k)>>), write_u16(Len(k.value) % 65536)),
                serialize_entries(k.value))
      [] k.kind = "Map32" ->
            Cat(Cat(Bytes(<<MapKind_get_marker(k)>>), write_u32(Len(k.value))),
                serialize_entries(k.value))

\* MessageStructureKind: [kind |-> "Init" or "Run", string, map], [kind |->
\* "Record", list], [kind |-> "Success", "Failure" or "Ignored", map], or a
\* kind alone.
MessageStructureKind_serialize_contents(k) ==
    CASE k.kind \in {"Init", "Run"} ->
            Cat(StringKind_serialize(k.string), MapKind_serialize(k.map))
      [] k.kind \in {"DiscardAll", "PullAll", "AckFailure", "Reset"} -> <<>>
      [] k.kind = "Record" -> ListKind_serialize(k.list)
      [] k.kind \in {"Success", "Failure", "Ignored"} -> MapKind_serialize(k.map)

MessageStructureKind_get_signature(k) ==
    CASE k.kind = "Init"       -> \h01
      [] k.kind = "Run"        -> \h10
      [] k.kind = "DiscardAll" -> \h2F
      [] k.kind = "PullAll"    -> \h3F
      [] k.kind = "AckFailure" -> \h0E
      [] k.kind = "Reset"      -> \h0F
      [] k.kind = "Record"     -> \h71
      [] k.kind = "Success"    -> \h70
      [] k.kind = "Failure"    -> \h7F
      [] k.kind = "Ignored"    -> \h7E

MessageStructureKind_get_size(k) ==
    CASE k.kind \in {"Init", "Run"} -> 2
      [] k.kind \in {"DiscardAll", "PullAll", "AckFailure", "Reset"} -> 0
      [] k.kind \in {"Record", "Success", "Failure", "Ignored"} -> 1

\* DataStructureKind: a kind alone, or [kind |-> "NonStandard", signature, size].
DataStructureKind_serialize_contents(k) == Bytes(<<\h0>>)

DataStructureKind_get_signature(k) ==
    CASE k.kind = "Node"                -> \h4E
      [] k.kind = "Relationship"        -> \h52
      [] k.kind = "Path"                -> \h50
      [] k.kind = "UnboundRelationship" -> \h72
      [] k.kind = "NonStandard"         -> k.signature

DataStructureKind_get_size(k) ==
    CASE k.kind = "Node"                -> 3
      [] k.kind = "Relationship"        -> 5
      [] k.kind = "Path"                -> 3
      [] k.kind = "UnboundRelationship" -> 3
      [] k.kind = "NonStandard"         -> k.size

\* StructureKind: [kind |-> "Message" or "Data", value |-> the kind inside].
StructureKind_get_signature(k) ==
    CASE k.kind = "Message" -> MessageStructureKind_get_signature(k.value)
      [] k.kind = "Data"    -> DataStructureKind_get_signature(k.value)

StructureKind_get_size(k) ==
    CASE k.kind = "Message" -> MessageStructureKind_get_size(k.value)
      [] k.kind = "Data"    -> DataStructureKind_get_size(k.value)

StructureKind_get_marker(k) ==
    LET s == StructureKind_get_size(k)
    IN  IF s <= 15 THEN \hB0 + s
        ELSE IF s <= 255 THEN \hDC
        ELSE \hDD

StructureKind_get_header(k) ==
    LET signature == StructureKind_get_signature(k)
        size      == StructureKind_get_size(k)
        marker    == StructureKind_get_marker(k)
    IN  IF marker = \hDD THEN Cat(Cat(Bytes(<<marker>>), write_u16(size)), Bytes(<<signature>>))
        ELSE IF marker = \hDC THEN Bytes(<<marker, size % 256, signature>>)
        ELSE Bytes(<<marker, signature>>)

StructureKind_serialize(k) ==
    CASE k.kind = "Message" ->
            Cat(StructureKind_get_header(k), MessageStructureKind_serialize_contents(k.value))
      [] k.kind = "Data" ->
            Cat(StructureKind_get_header(k), DataStructureKind_serialize_contents(k.value))

\* DataKind: [kind |-> "Null"], or [kind, value].
DataKind_get_marker(d) ==
    CASE d.kind = "Null"      -> \hC0
      [] d.kind = "Boolean"   -> IF d.value THEN \hC3 ELSE \hC2
      [] d.kind = "Integer"   -> IntegerKind_get_marker(d.value)
      [] d.kind = "Float"     -> \hC1
      [] d.kind = "String"    -> StringKind_get_marker(d.value)
      [] d.kind = "List"      -> ListKind_get_marker(d.value)
      [] d.kind = "Map"       -> MapKind_get_marker(d.value)
      [] d.kind = "Structure" -> StructureKind_get_marker(d.value)

\* DataKind::serialize.  Float's buf is [0x0; 64]: write_f64 fills its first
\* 8 bytes and all 64 are appended.
DataKind_serialize(d) ==
    CASE d.kind \in {"Null", "Boolean"} -> Bytes(<<DataKind_get_marker(d)>>)
      [] d.kind = "Integer"   -> IntegerKind_serialize(d.value)
      [] d.kind = "Float"     ->
            LET buf == Cat(write_f64(d.value), Fill(\h0, 64 - 8))
            IN  Cat(Bytes(<<DataKind_get_marker(d)>>), buf)
      [] d.kind = "String"    -> StringKind_serialize(d.value)
      [] d.kind = "List"      -> ListKind_serialize(d.value)
      [] d.kind = "Map"       -> MapKind_serialize(d.value)
      [] d.kind = "Structure" -> StructureKind_serialize(d.value)

DataKind_String(s) == [kind |-> "String", value |-> StringKind_new(s)]

(***************************************************************************)
(* The strings of the program and of the callers of this model (UTF-8).    *)
(***************************************************************************)
STR_scheme      == Bytes(<<115, 99, 104, 101, 109, 101>>)
STR_basic       == Bytes(<<98, 97, 115, 105, 99>>)
STR_principal   == Bytes(<<112, 114, 105, 110, 99, 105, 112, 97, 108>>)
STR_neo4j       == Bytes(<<110, 101, 111, 52, 106>>)
STR_credentials == Bytes(<<99, 114, 101, 100, 101, 110, 116, 105, 97, 108, 115>>)
STR_client_name ==   \* "bolt-protocol/0.1"
    Bytes(<<98, 111, 108, 116, 45, 112, 114, 111, 116, 111, 99, 111, 108, 47, 48, 46, 49>>)

\* init's three map.insert calls.
init_map ==
    HashMap_insert(
        HashMap_insert(
            HashMap_insert(HashMap_new, StringKind_new(STR_scheme), DataKind_String(STR_basic)),
            StringKind_new(STR_principal), DataKind_String(STR_neo4j)),
        StringKind_new(STR_credentials), DataKind_String(STR_neo4j))

\* init's `init` value, its map iterating in `order`.
init_message(order) ==
    [kind |-> "Structure",
     value |-> [kind |-> "Message",
                value |-> [kind |-> "Init",
                           string |-> StringKind_new(STR_client_name),
                           map |-> MapKind_new(HashMap_iter(init_map, order))]]]

\* run's `run` value: the statement and an empty parameter map.
run_message(statement) ==
    [kind |-> "Structure",
     value |-> [kind |-> "Message",
                value |-> [kind |-> "Run",
                           string |-> StringKind_new(statement),
                           map |-> MapKind_new(HashMap_new)]]]

(***************************************************************************)
(* The handshake.                                                          *)
(***************************************************************************)
BOLT_PREAMBLE == Bytes(<<\h60, \h60, \hB0, \h17>>)

BOLT_SUPPORTED_VERSIONS == <<1>>

BOLT_VERSION_NONE == 0

\* handshake's first loop: each supported version, big-endian.
RECURSIVE write_versions(_, _)
write_versions(stream, versions) ==
    IF versions = <<>> THEN stream
    ELSE write_versions(write(stream, write_u32(Head(versions))), Tail(versions))

\* handshake's second loop, for _ in from..4: the 'none' version.
RECURSIVE write_none(_, _)
write_none(stream, from) ==
    IF from >= 4 THEN stream
    ELSE write_none(write(stream, write_u32(BOLT_VERSION_NONE)), from + 1)

\* handshake_request with the padding loop written as for _ in 0..4: four
\* 'none' slots after the supported versions instead of three.
handshake_request_pad4(stream) ==
    write_none(write_versions(write(stream, BOLT_PREAMBLE), BOLT_SUPPORTED_VERSIONS), 0)

\* Everything handshake writes before it reads.
handshake_request(stream) ==
    write_none(write_versions(write(stream, BOLT_PREAMBLE), BOLT_SUPPORTED_VERSIONS),
               Len(BOLT_SUPPORTED_VERSIONS))

(***************************************************************************)
(* The callers and the peer of Spec.                                       *)
(***************************************************************************)
MaxRuns == 2

\* The build profiles of cargo: debug panics on arithmetic overflow, release
\* wraps.
Builds == {"debug", "release"}

STR_alice  == Bytes(<<97, 108, 105, 99, 101>>)
STR_secret == Bytes(<<115, 101, 99, 114, 101, 116>>)

\* The <<username, password>> pairs callers pass to connect.
Credentials ==
    {<<STR_neo4j, STR_neo4j>>, <<STR_alice, STR_neo4j>>, <<STR_neo4j, STR_secret>>}

\* The statements callers run: "RETURN 1", and one of 65535 bytes, whose Run
\* message does not fit one chunk.
Statements == {Bytes(<<82, 69, 84, 85, 82, 78, 32, 49>>), Fill(\h41, U16_MAX)}

\* The version replies of a server: none, 1, 2, and 1 in the wrong byte.
ServerVersions == {0, 1, 2, 16777216}

\* Success {}, Failure {}, Ignored {} and Record [] as a server encodes them.
MSG_SUCCESS == Bytes(<<\hB1, \h70, \hA0>>)
MSG_FAILURE == Bytes(<<\hB1, \h7F, \hA0>>)
MSG_IGNORED == Bytes(<<\hB1, \h7E, \hA0>>)
MSG_RECORD  == Bytes(<<\hB1, \h71, \h90>>)


\* A server's framing of msg: one chunk (k = 0) or two, the first of k bytes,
\* then the zero header.
ServerFrame(msg, k) ==
    IF k = 0
    THEN Cat(Cat(write_u16(BLen(msg)), msg), write_u16(0))
    ELSE Cat(Cat(Cat(write_u16(k), Take(msg, k)),
                 Cat(write_u16(BLen(msg) - k), Drop(msg, k))),
             write_u16(0))

\* What a server may send for one message: each message in one chunk, the
\* record in two.
ServerFrames ==
    {ServerFrame(MSG_SUCCESS, 0), ServerFrame(MSG_FAILURE, 0),
     ServerFrame(MSG_IGNORED, 0), ServerFrame(MSG_RECORD, 1)}

\* The signature byte of a message structure with a tiny header.
Signature(msg) == IF BLen(msg) >= 2 THEN At(msg, 2) ELSE -1

Init ==
    /\ pc = "Start"
    /\ \E c \in Credentials :
           /\ username = c[1]
           /\ password = c[2]
    /\ outbound = <<>>
    /\ inbound = <<>>
    /\ nread = 0
    /\ version = -1
    /\ message = <<>>
    /\ result = "none"
    /\ session = FALSE
    /\ closed = FALSE
    /\ pending = 0
    /\ runs = 0
    /\ request = "none"
    /\ arg = <<>>
    /\ output = <<>>
    /\ build \in Builds
    /\ accepts = None

\* connect, when TcpStream::connect fails: the error goes to the caller.
ConnectRefused ==
    /\ pc = "Start"
    /\ pc' = "Done"
    /\ result' = "Err"
    /\ UNCHANGED <<build, accepts, username, password, outbound, inbound, nread, version, message,
                   session, closed, pending, runs, request, arg, output>>

\* connect -> BoltSession::new -> handshake, up to its read_exact.
Connect ==
    /\ pc = "Start"
    /\ outbound' = handshake_request(outbound)
    /\ pending' = 1
    /\ pc' = "Handshake"
    /\ UNCHANGED <<build, accepts, username, password, inbound, nread, version, message, result,
                   session, closed, runs, request, arg, output>>

\* The server answers the handshake with a version.
ServerVersion ==
    /\ pc = "Handshake"
    /\ pending = 1
    /\ \E v \in ServerVersions : inbound' = Cat(inbound, write_u32(v))
    /\ pending' = 0
    /\ UNCHANGED <<build, accepts, pc, username, password, outbound, nread, version, message, result,
                   session, closed, runs, request, arg, output>>

\* handshake from its read_exact on: a zero version panics, which unwinds
\* through new and connect and drops the stream; any other version returns
\* Ok, new builds the session, and connect calls init, which sends the Init
\* message and blocks in read_message.
HandshakeResponse ==
    /\ pc = "Handshake"
    /\ can_read_exact(inbound, 4)
    /\ LET response_buffer == Take(inbound, 4)
       IN  /\ version' = read_u32(response_buffer)
           /\ inbound' = Drop(inbound, 4)
           /\ nread' = nread + 4
    /\ IF version' = 0
       THEN /\ result' = "Panic"
            /\ pc' = "Done"
            /\ closed' = TRUE
            /\ UNCHANGED <<outbound, session, pending, request>>
       ELSE /\ \E order \in IterationOrders(Len(init_map)) :
                  outbound' = send_message(outbound, DataKind_serialize(init_message(order)))
            /\ session' = TRUE
            /\ request' = "Init"
            /\ pending' = 1
            /\ pc' = "Init"
            /\ UNCHANGED <<result, closed>>
    /\ UNCHANGED <<build, accepts, username, password, message, runs, arg, output>>

\* The server answers one request with one message.
ServerReply ==
    /\ pc \in {"Init", "Run", "Ready"}
    /\ pending > 0
    /\ \E frame \in ServerFrames : inbound' = Cat(inbound, frame)
    /\ pending' = pending - 1
    /\ UNCHANGED <<build, accepts, pc, username, password, outbound, nread, version, message, result,
                   session, closed, runs, request, arg, output>>

\* init from its read_message on: the message is dropped, init returns Ok
\* and connect returns Ok(session).
InitResponse ==
    /\ pc = "Init"
    /\ read_message(inbound).ok
    /\ message' = read_message(inbound).message
    /\ inbound' = read_message(inbound).rest
    /\ nread' = nread + (BLen(inbound) - BLen(inbound'))
    /\ result' = "Ok"
    /\ pc' = "Ready"
    /\ UNCHANGED <<build, accepts, username, password, outbound, version, session, closed, pending,
                   runs, request, arg, output>>

\* BoltSession::run, up to its read_message.
Run ==
    /\ pc = "Ready"
    /\ runs < MaxRuns
    /\ \E statement \in Statements :
           outbound' = send_message(outbound, DataKind_serialize(run_message(statement)))
    /\ runs' = runs + 1
    /\ pending' = pending + 1
    /\ request' = "Run"
    /\ message' = <<>>
    /\ result' = "none"
    /\ pc' = "Run"
    /\ UNCHANGED <<build, accepts, username, password, inbound, nread, version, session, closed,
                   arg, output>>

\* run from its read_message on: the message is dropped and run returns Ok.
RunResponse ==
    /\ pc = "Run"
    /\ read_message(inbound).ok
    /\ message' = read_message(inbound).message
    /\ inbound' = read_message(inbound).rest
    /\ nread' = nread + (BLen(inbound) - BLen(inbound'))
    /\ result' = "Ok"
    /\ pc' = "Ready"
    /\ UNCHANGED <<build, accepts, username, password, outbound, version, session, closed, pending,
                   runs, request, arg, output>>

\* A blocked read_exact fails (the 5 s read timeout connect sets, or the
\* peer closing): try! returns the error.  In handshake and init the error
\* leaves connect and the stream is dropped; run's caller keeps the session.
ReadError ==
    /\ pc \in {"Handshake", "Init", "Run"}
    /\ inbound = <<>>
    /\ result' = "Err"
    /\ IF pc = "Run"
       THEN /\ pc' = "Ready"
            /\ UNCHANGED <<session, closed>>
       ELSE /\ pc' = "Done"
            /\ session' = FALSE
            /\ closed' = TRUE
    /\ UNCHANGED <<build, accepts, username, password, outbound, inbound, nread, version, message,
                   pending, runs, request, arg, output>>

\* The caller drops the session, and with it the stream.
Close ==
    /\ pc = "Ready"
    /\ session' = FALSE
    /\ closed' = TRUE
    /\ pc' = "Done"
    /\ UNCHANGED <<build, accepts, username, password, outbound, inbound, nread, version, message,
                   result, pending, runs, request, arg, output>>

Next ==
    \/ ConnectRefused
    \/ Connect
    \/ ServerVersion
    \/ HandshakeResponse
    \/ ServerReply
    \/ InitResponse
    \/ Run
    \/ RunResponse
    \/ ReadError
    \/ Close

Spec == Init /\ [][Next]_vars

(***************************************************************************)
(* The PackStream encoder of serialize.rs.  An encoder's outcome is        *)
(* [result, bytes]: Ok with the bytes, Err, or Panic (an unwrap of None).  *)
(***************************************************************************)
Ok(bytes) == [result |-> "Ok", bytes |-> bytes]
Panic == [result |-> "Panic", bytes |-> <<>>]

\* serialize_integer with the Int8 arm written as -128 ... -16: the arm is
\* met before the TinyInt arm, so -16 goes out as C8 F0.
serialize_integer_int8_to_minus16(value) ==
    LET value_i64 == value
    IN  IF \/ I64_In(I64_MIN, value_i64, I64_Add(I32_MIN, -1))
           \/ I64_In(I64_Add(I32_MAX, 1), value_i64, I64_MAX)
        THEN Ok(Cat(Bytes(<<\hCB>>), write_i64(value_i64)))
        ELSE IF \/ I64_In(I32_MIN, value_i64, I64(-32769))
                \/ I64_In(I64(32768), value_i64, I32_MAX)
        THEN Ok(Cat(Bytes(<<\hCA>>), write_i32(unwrap(to_i32(value)))))
        ELSE IF \/ I64_In(I64(-32768), value_i64, I64(-129))
                \/ I64_In(I64(128), value_i64, I64(32767))
        THEN Ok(Cat(Bytes(<<\hC9>>), write_i16(unwrap(to_i16(value)))))
        ELSE IF I64_In(I64(-128), value_i64, I64(-16))
        THEN Ok(Bytes(<<\hC8, unwrap(to_i8(value)) % 256>>))
        ELSE Ok(Bytes(<<unwrap(to_i8(value)) % 256>>))

\* serialize_integer on an i64 (to_i64 of an i64 is the value itself).
serialize_integer(value) ==
    LET value_i64 == value
    IN  IF \/ I64_In(I64_MIN, value_i64, I64_Add(I32_MIN, -1))
           \/ I64_In(I64_Add(I32_MAX, 1), value_i64, I64_MAX)
        THEN Ok(Cat(Bytes(<<\hCB>>), write_i64(value_i64)))
        ELSE IF \/ I64_In(I32_MIN, value_i64, I64(-32769))
                \/ I64_In(I64(32768), value_i64, I32_MAX)
        THEN IF to_i32(value) = None THEN Panic
             ELSE Ok(Cat(Bytes(<<\hCA>>), write_i32(unwrap(to_i32(value)))))
        ELSE IF \/ I64_In(I64(-32768), value_i64, I64(-129))
                \/ I64_In(I64(128), value_i64, I64(32767))
        THEN IF to_i16(value) = None THEN Panic
             ELSE Ok(Cat(Bytes(<<\hC9>>), write_i16(unwrap(to_i16(value)))))
        ELSE IF I64_In(I64(-128), value_i64, I64(-17))
        THEN IF to_i8(value) = None THEN Panic
             ELSE Ok(Bytes(<<\hC8, unwrap(to_i8(value)) % 256>>))
        ELSE IF I64_In(I64(-16), value_i64, I64(127))
        THEN IF to_i8(value) = None THEN Panic
             ELSE Ok(Bytes(<<unwrap(to_i8(value)) % 256>>))
        ELSE [result |-> "Err", bytes |-> <<>>]

Err == [result |-> "Err", bytes |-> <<>>]

(***************************************************************************)
(* Lengths.  A usize is 64 bits wide and a string, Vec or HashMap can hold *)
(* more than 2^32 entries, so a length is kept in the four-word form of    *)
(* the i64 above.  A Vec is kept run-length encoded like a byte string: a  *)
(* sequence of runs <<entry, count>>.  A HashMap<&str, T> is a record      *)
(* [entries, order]: entries is a sequence of runs <<letter, count, value>>*)
(* in the order the caller inserted them, a run standing for the `count`   *)
(* entries whose keys are Key(letter, 0) .. Key(letter, count - 1) and     *)
(* whose value is `value`; order is the order in which this map's iterator *)
(* yields the runs.                                                        *)
(***************************************************************************)

\* len(): the counts of the runs, added up.
RECURSIVE usize_len(_)
usize_len(s) == IF s = <<>> THEN I64(0) ELSE I64_Add(usize_len(Tail(s)), s[1][2])

U32_MAX == <<0, 0, 65535, 65535>>

\* BigEndian::write_u32(&mut buf, len as u32): the low 32 bits of len.
write_u32_of(len) == Cat(write_u16(len[3]), write_u16(len[4]))

\* The key of the i-th entry of a run: the letter and i in five digits of
\* base 64, written with the characters '0' .. 'o'.
Key(letter, i) ==
    Bytes(<<letter, 48 + ((i \div 16777216) % 64), 48 + ((i \div 262144) % 64),
            48 + ((i \div 4096) % 64), 48 + ((i \div 64) % 64), 48 + (i % 64)>>)

\* What n executions of message.append(bytes) add to the message.
RECURSIVE Repeat(_, _)
Repeat(bytes, n) ==
    IF n <= 0 \/ bytes = <<>> THEN <<>>
    ELSE IF Len(bytes) = 1 THEN Fill(bytes[1][1], bytes[1][2] * n)
    ELSE LET half == Repeat(bytes, n \div 2)
         IN  Cat(Cat(half, half), IF n % 2 = 1 THEN bytes ELSE <<>>)

serialize_null == Bytes(<<\hC0>>)

serialize_boolean(value) == IF value THEN Bytes(<<\hC3>>) ELSE Bytes(<<\hC2>>)

serialize_float(value) ==
    LET buf == write_f64(value)
    IN  Cat(Bytes(<<\hC1>>), buf)

\* serialize_string with the tiny arm written as 0 ... 14: a string of 15
\* bytes goes out with the 8-bit header D0 0F.
serialize_string_tiny_to_14(s) ==
    LET len == usize_len(s)
    IN  IF I64_In(I64(0), len, I64(14))
        THEN Ok(Cat(Bytes(<<\h80 + (len[4] % 256)>>), s))
        ELSE IF I64_In(I64(15), len, I64(255))
        THEN Ok(Cat(Bytes(<<\hD0, len[4] % 256>>), s))
        ELSE IF I64_In(I64(256), len, I64(65535))
        THEN Ok(Cat(Cat(Bytes(<<\hD1>>), write_u16(len[4])), s))
        ELSE IF I64_In(I64(65536), len, U32_MAX)
        THEN Ok(Cat(Cat(Bytes(<<\hD2>>), write_u32_of(len)), s))
        ELSE Err

serialize_string(s) ==
    LET len == usize_len(s)
    IN  IF I64_In(I64(0), len, I64(15))
        THEN Ok(Cat(Bytes(<<\h80 + (len[4] % 256)>>), s))
        ELSE IF I64_In(I64(16), len, I64(255))
        THEN Ok(Cat(Bytes(<<\hD0, len[4] % 256>>), s))
        ELSE IF I64_In(I64(256), len, I64(65535))
        THEN Ok(Cat(Cat(Bytes(<<\hD1>>), write_u16(len[4])), s))
        ELSE IF I64_In(I64(65536), len, U32_MAX)
        THEN Ok(Cat(Cat(Bytes(<<\hD2>>), write_u32_of(len)), s))
        ELSE Err

RECURSIVE BoltSerialize_serialize(_)

\* The for loop of serialize_list, run by run: try! returns the first
\* entry's error; otherwise every entry's bytes are appended.
RECURSIVE serialize_list_entries(_, _)
serialize_list_entries(msg, list) ==
    IF list = <<>> THEN Ok(msg)
    ELSE LET entry == BoltSerialize_serialize(list[1][1])
         IN  IF entry.result # "Ok" THEN entry
             ELSE serialize_list_entries(Cat(msg, Repeat(entry.bytes, list[1][2])),
                                         Tail(list))

\* serialize_list: the arm of the length's class starts the message with
\* its header, and every arm runs the same loop over the entries.
serialize_list(list) ==
    LET len == usize_len(list)
        msg == IF I64_In(I64(0), len, I64(15))
               THEN Some(Bytes(<<\h90 + (len[4] % 256)>>))
               ELSE IF I64_In(I64(16), len, I64(255))
               THEN Some(Bytes(<<\hD4, len[4] % 256>>))
               ELSE IF I64_In(I64(256), len, I64(65535))
               THEN Some(Cat(Bytes(<<\hD5>>), write_u16(len[4])))
               ELSE IF I64_In(I64(65536), len, U32_MAX)
               THEN Some(Cat(Bytes(<<\hD6>>), write_u32_of(len)))
               ELSE None
    IN  IF msg = None THEN Err
        ELSE serialize_list_entries(unwrap(msg), list)

\* The for loop of serialize_map over the entries lo .. hi of one run, whose
\* value serializes to `entry`.
RECURSIVE serialize_map_run(_, _, _, _)
serialize_map_run(letter, entry, lo, hi) ==
    IF lo > hi THEN <<>>
    ELSE IF lo = hi THEN Cat(serialize_string(Key(letter, lo)).bytes, entry)
    ELSE LET mid == (lo + hi) \div 2
         IN  Cat(serialize_map_run(letter, entry, lo, mid),
                 serialize_map_run(letter, entry, mid + 1, hi))

\* The for loop of serialize_map over the runs as map.iter() yields them.
RECURSIVE serialize_map_entries(_, _)
serialize_map_entries(msg, rs) ==
    IF rs = <<>> THEN Ok(msg)
    ELSE LET entry == BoltSerialize_serialize(rs[1][3])
         IN  IF entry.result # "Ok" THEN entry
             ELSE serialize_map_entries(
                      Cat(msg,
                          serialize_map_run(rs[1][1], entry.bytes, 0, rs[1][2] - 1)),
                      Tail(rs))

\* serialize_map: the arm of the length's class starts the message with its
\* header, and every arm runs the same loop over map.iter().
serialize_map(map) ==
    LET len == usize_len(map.entries)
        msg == IF I64_In(I64(0), len, I64(15))
               THEN Some(Bytes(<<\hA0 + (len[4] % 256)>>))
               ELSE IF I64_In(I64(16), len, I64(255))
               THEN Some(Bytes(<<\hD8, len[4] % 256>>))
               ELSE IF I64_In(I64(256), len, I64(65535))
               THEN Some(Cat(Bytes(<<\hD9>>), write_u16(len[4])))
               ELSE IF I64_In(I64(65536), len, U32_MAX)
               THEN Some(Cat(Bytes(<<\hDA>>), write_u32_of(len)))
               ELSE None
    IN  IF msg = None THEN Err
        ELSE serialize_map_entries(unwrap(msg), HashMap_iter(map.entries, map.order))

\* The impls of BoltSerialize: a value is [type, value], the type naming
\* the impl.
BoltSerialize_serialize(v) ==
    CASE v.type = "null"    -> Ok(serialize_null)
      [] v.type = "boolean" -> Ok(serialize_boolean(v.value))
      [] v.type = "integer" -> serialize_integer(v.value)
      [] v.type = "float"   -> Ok(serialize_float(v.value))
      [] v.type = "string"  -> serialize_string(v.value)
      [] v.type = "list"    -> serialize_list(v.value)
      [] v.type = "map"     -> serialize_map(v.value)

(***************************************************************************)
(* Structures of serialize.rs.  A u64 identity is four 16-bit words with   *)
(* an unsigned top word; to_i64 gives None from 2^63 on.                   *)
(***************************************************************************)
u64_to_i64(value) == IF value[1] <= 32767 THEN Some(value) ELSE None

\* serialize_integer on a u64: value.to_i64().unwrap() comes first.
serialize_integer_u64(value) ==
    IF u64_to_i64(value) = None THEN Panic
    ELSE serialize_integer(unwrap(u64_to_i64(value)))

get_struct_header(size) ==
    IF size >= 0 /\ size <= 15 THEN Ok(Bytes(<<\hB0 + (size % 256)>>))
    ELSE IF size >= 16 /\ size <= 255 THEN Ok(Bytes(<<\hDC, size % 256>>))
    ELSE IF size >= 256 /\ size <= 65535
    THEN Ok(Cat(Bytes(<<\hDD>>), write_u16(size % 65536)))
    ELSE Err

\* A function body of try!s: the header, the signature pushed, and each
\* field appended in turn.  The first part that fails is what the function
\* returns; otherwise Ok with the parts one after another.
RECURSIVE try_append(_)
try_append(parts) ==
    IF parts = <<>> THEN Ok(<<>>)
    ELSE IF Head(parts).result # "Ok" THEN Head(parts)
    ELSE LET rest == try_append(Tail(parts))
         IN  IF rest.result # "Ok" THEN rest
             ELSE Ok(Cat(Head(parts).bytes, rest.bytes))

serialize_node(node_identity, labels, properties) ==
    LET signature == \h4E
        size      == 3
    IN  try_append(<<get_struct_header(size),
                     Ok(Bytes(<<signature>>)),
                     serialize_integer_u64(node_identity),
                     serialize_list(labels),
                     serialize_map(properties)>>)

serialize_relationship(rel_identity, start_node_identity, end_node_identity, rel_type, properties) ==
    LET signature == \h52
        size      == 5
    IN  try_append(<<get_struct_header(size),
                     Ok(Bytes(<<signature>>)),
                     serialize_integer_u64(rel_identity),
                     serialize_integer_u64(start_node_identity),
                     serialize_integer_u64(end_node_identity),
                     serialize_string(rel_type),
                     serialize_map(properties)>>)

serialize_path(nodes, relationships, sequence) ==
    LET signature == \h50
        size      == 3
    IN  try_append(<<get_struct_header(size),
                     Ok(Bytes(<<signature>>)),
                     serialize_list(nodes),
                     serialize_list(relationships),
                     serialize_list(sequence)>>)

serialize_unbound_relationship(rel_identity, rel_type, properties) ==
    LET signature == \h72
        size      == 5
    IN  try_append(<<get_struct_header(size),
                     Ok(Bytes(<<signature>>)),
                     serialize_integer_u64(rel_identity),
                     serialize_string(rel_type),
                     serialize_map(properties)>>)

(***************************************************************************)
(* SpecCodec: an encoder of serialize.rs or of mod.rs applied to one value. *)
(***************************************************************************)
MaxDelta == 3

\* The ends of the five encodings' ranges, 0, and +-2^32 and +-2^48.
IntegerLandmarks ==
    {I64_MIN, I64_MAX, I32_MIN, I32_MAX, I64(-32768), I64(32767), I64(-128), I64(127),
     I64(-16), I64(0), <<0, 1, 0, 0>>, <<-1, 65535, 0, 0>>, <<1, 0, 0, 0>>, <<-1, 0, 0, 0>>}

\* Every i64 within MaxDelta of a landmark.
IntegerInputs ==
    {v \in {I64_Add(b, d) : b \in IntegerLandmarks, d \in (0 - MaxDelta)..MaxDelta} :
        I64_In(I64_MIN, v, I64_MAX)}

MaxLenDelta == 1

\* The lengths within MaxLenDelta of where a length class begins.
Lengths ==
    {n \in {b + d : b \in {0, 16, 256, 65536}, d \in (0 - MaxLenDelta)..MaxLenDelta} :
        n >= 0}

\* 2^30: the entries of one run of a collection longer than 2^32.
Block == 16384 * 65536

\* The values callers put into collections: small integers and short strings.
Integer(n) == [type |-> "integer", value |-> I64(n)]
Str(s) == [type |-> "string", value |-> s]

\* The runs of a sequence whose count is positive.
Runs(s) == SelectSeq(s, LAMBDA r : r[2] > 0)

\* Strings: n 'A's; n - 1 'A's and a 'B'; and strings of 2^32 + d bytes, runs
\* of 2^30 'A's and 'B's in turn.
StringInputs ==
    {Fill(\h41, n) : n \in Lengths}
        \cup {Cat(Fill(\h41, n - 1), Fill(\h42, 1)) : n \in Lengths \ {0}}
        \cup {Runs(<<<<\h41, Block>>, <<\h42, Block>>, <<\h41, Block>>, <<\h42, Block - 1>>,
                     <<\h41, 1 + d>>>>) : d \in (0 - MaxLenDelta)..MaxLenDelta}

\* Vec<i64>: n - 1 sevens and a -17; Vec<&str>: n times "AB"; and a Vec<i64>
\* of 2^32 + d entries, runs of 2^30 ones and twos in turn.
ListInputs ==
    {Runs(<<<<Integer(7), n - 1>>, <<Integer(-17), 1>>>>) : n \in Lengths \ {0}}
        \cup {Runs(<<<<Str(Bytes(<<\h41, \h42>>)), n>>>>) : n \in Lengths}
        \cup {Runs(<<<<Integer(1), Block>>, <<Integer(2), Block>>, <<Integer(1), Block>>,
                     <<Integer(2), Block - 1>>, <<Integer(1), 1 + d>>>>) :
                  d \in (0 - MaxLenDelta)..MaxLenDelta}

\* The entries of a HashMap<&str, &str> of n entries, as the caller inserted
\* them: up to three entries are one key each in 'a', 'b' and 'c'; more are
\* n keys in 'a'.
MapEntries(n) ==
    IF n <= 3
    THEN SubSeq(<<<<97, 1, Str(Bytes(<<120>>))>>, <<98, 1, Str(Bytes(<<121>>))>>,
                  <<99, 1, Str(Bytes(<<122>>))>>>>, 1, n)
    ELSE <<<<97, n, Str(Bytes(<<120>>))>>>>

\* The entries of a HashMap<&str, i64> of 2^32 + d entries, d >= 0.
BigMapEntries(d) ==
    Runs(<<<<97, Block, Integer(1)>>, <<98, Block, Integer(2)>>, <<99, Block, Integer(3)>>,
           <<100, Block, Integer(4)>>, <<101, d, Integer(5)>>>>)

\* Each map with each order its iterator may have.
MapInputs ==
    UNION {{[entries |-> e, order |-> o] : o \in IterationOrders(Len(e))} :
           e \in {MapEntries(n) : n \in Lengths} \cup {BigMapEntries(d) : d \in 0..MaxLenDelta}}

\* f64 values: every sign with exponents 0 (zero, subnormal), 1023, 1024,
\* 2046 (the largest finite) and 2047 (infinity, NaN), and five fractions.
FloatInputs ==
    [sign : 0..1, exponent : {0, 1023, 1024, 2046, 2047},
     fraction : {<<0, 0, 0, 0>>, <<4, 0, 0, 0>>, <<8, 0, 0, 0>>, <<0, 0, 0, 1>>,
                 <<15, 65535, 65535, 65535>>}]

\* The numbers of entries the variants of mod.rs are built with: around the
\* end of the tiny class, around the count at which the tiny marker's u8
\* addition overflows (112 for lists, 96 for maps, 128 for strings), and
\* around 256, where the count no longer fits a u8.
VariantLengths == {0, 1, 15, 16, 17, 95, 96, 111, 112, 127, 128, 255, 256}

DataKind_Null == [kind |-> "Null"]

\* HashMap insertions of n distinct keys, all with the value Null.
NullMap(n) == [i \in 1..n |-> <<StringKind_new(Key(97, i)), DataKind_Null>>]

\* The DataKind values handed to DataKind::serialize, set by set.  The
\* variants are plain enum constructors: any of them can hold any value of
\* its type.
DataKindInputs ==
    <<{DataKind_Null},
      {[kind |-> "Boolean", value |-> b] : b \in BOOLEAN},
      {[kind |-> "Integer", value |-> [kind |-> k, value |-> v]] :
          k \in {"TinyInt", "Int8"}, v \in -128..127},
      {[kind |-> "Integer", value |-> [kind |-> "Int16", value |-> v]] :
          v \in {-32768, -129, 128, 32767}},
      {[kind |-> "Integer", value |-> [kind |-> "Int32", value |-> v]] :
          v \in {-2147483647 - 1, -32769, 32768, 2147483647}},
      {[kind |-> "Integer", value |-> [kind |-> "Int64", value |-> v]] :
          v \in {I64_MIN, I64_Add(I32_MIN, -1), I64_Add(I32_MAX, 1), I64_MAX}},
      {[kind |-> "Float", value |-> f] : f \in FloatInputs},
      {DataKind_String(Fill(\h41, n)) : n \in VariantLengths},
      {[kind |-> "String", value |-> [kind |-> k, value |-> Fill(\h41, n)]] :
          k \in {"TinyString", "String8", "String16", "String32"}, n \in VariantLengths},
      {[kind |-> "List", value |-> [kind |-> k, value |-> [i \in 1..n |-> DataKind_Null]]] :
          k \in {"TinyList", "List8", "List16", "List32"}, n \in VariantLengths},
      {[kind |-> "Map", value |-> MapKind_new(NullMap(n))] : n \in VariantLengths},
      {[kind |-> "Map", value |-> [kind |-> k, value |-> NullMap(n)]] :
          k \in {"TinyMap", "Map8", "Map16", "Map32"}, n \in VariantLengths},
      {[kind |-> "Structure", value |-> [kind |-> "Message", value |-> [kind |-> k]]] :
          k \in {"DiscardAll", "PullAll", "AckFailure", "Reset"}},
      {[kind |-> "Structure",
        value |-> [kind |-> "Message",
                   value |-> [kind |-> k, map |-> MapKind_new(HashMap_new)]]] :
          k \in {"Success", "Failure", "Ignored"}},
      {[kind |-> "Structure",
        value |-> [kind |-> "Message",
                   value |-> [kind |-> "Record",
                              list |-> [kind |-> "TinyList", value |-> <<>>]]]]},
      {run_message(Fill(\h41, n)) : n \in VariantLengths},
      {[kind |-> "Structure", value |-> [kind |-> "Data", value |-> [kind |-> k]]] :
          k \in {"Node", "Relationship", "Path", "UnboundRelationship"}},
      {[kind |-> "Structure",
        value |-> [kind |-> "Data",
                   value |-> [kind |-> "NonStandard", signature |-> g, size |-> n]]] :
          g \in {\h58}, n \in {0, 15, 16, 255, 256, 65535}}>>

\* HashMap<StringKind, DataKind> values handed to MapKind::new: the auth
\* token as init inserts it, and maps of up to two entries, each with each
\* order its iterator may have.
MapKindInputs ==
    UNION {{[entries |-> e, order |-> o] : o \in IterationOrders(Len(e))} :
           e \in {init_map, NullMap(0), NullMap(1), NullMap(2)}}

\* u64 identities: 0, 42, 2^31, 2^63 - 1 and 2^63.
IdentityInputs ==
    {<<0, 0, 0, 0>>, <<0, 0, 0, 42>>, <<0, 0, 32768, 0>>, <<32767, 65535, 65535, 65535>>,
     <<32768, 0, 0, 0>>}

\* Vec<&str>: n times "AB".
LabelInputs == {Runs(<<<<Str(Bytes(<<\h41, \h42>>)), n>>>>) : n \in {0, 1, 2, 16}}

\* &str: "", "KNOWS" and sixteen 'A's.
TypeInputs == {Fill(\h41, 0), Bytes(<<\h4B, \h4E, \h4F, \h57, \h53>>), Fill(\h41, 16)}

\* HashMap<&str, &str> of up to two entries, with each iteration order.
PropertyInputs ==
    UNION {{[entries |-> e, order |-> o] : o \in IterationOrders(Len(e))} :
           e \in {MapEntries(n) : n \in 0..2}}

\* Vec<i32>: n ones.
SequenceInputs == {Runs(<<<<Integer(1), n>>>>) : n \in {0, 1, 3}}

NodeInputs ==
    [node_identity : IdentityInputs, labels : LabelInputs, properties : PropertyInputs]

RelationshipInputs ==
    [rel_identity : IdentityInputs,
     start_node_identity : {<<0, 0, 0, 1>>, <<32768, 0, 0, 0>>},
     end_node_identity : {<<0, 0, 0, 2>>, <<0, 0, 32768, 0>>},
     rel_type : TypeInputs, properties : PropertyInputs]

PathInputs ==
    [nodes : LabelInputs, relationships : LabelInputs, sequence : SequenceInputs]

UnboundRelationshipInputs ==
    [rel_identity : IdentityInputs, rel_type : TypeInputs, properties : PropertyInputs]

CodecInit ==
    /\ pc = "Encode"
    /\ \/ arg \in [type : {"integer"}, value : IntegerInputs]
       \/ arg \in [type : {"string"}, value : StringInputs]
       \/ arg \in [type : {"list"}, value : ListInputs]
       \/ arg \in [type : {"map"}, value : MapInputs]
       \/ arg \in [type : {"float"}, value : FloatInputs]
       \/ \E i \in 1..Len(DataKindInputs) :
              arg \in [type : {"DataKind"}, value : DataKindInputs[i]]
       \/ arg \in [type : {"MapKind"}, value : MapKindInputs]
       \/ arg \in [type : {"node"}, value : NodeInputs]
       \/ arg \in [type : {"relationship"}, value : RelationshipInputs]
       \/ arg \in [type : {"path"}, value : PathInputs]
       \/ arg \in [type : {"unbound_relationship"}, value : UnboundRelationshipInputs]
    /\ output = <<>>
    /\ result = "none"
    /\ username = <<>>
    /\ password = <<>>
    /\ outbound = <<>>
    /\ inbound = <<>>
    /\ nread = 0
    /\ version = -1
    /\ message = <<>>
    /\ session = FALSE
    /\ closed = FALSE
    /\ pending = 0
    /\ runs = 0
    /\ request = "none"
    /\ build \in Builds
    /\ accepts = None

\* serialize_integer(arg).
SerializeInteger ==
    /\ pc = "Encode"
    /\ arg.type = "integer"
    /\ output' = serialize_integer(arg.value).bytes
    /\ result' = serialize_integer(arg.value).result
    /\ pc' = "Encoded"
    /\ UNCHANGED <<build, accepts, username, password, outbound, inbound, nread, version, message,
                   session, closed, pending, runs, request, arg>>

\* serialize_string(arg).
SerializeString ==
    /\ pc = "Encode"
    /\ arg.type = "string"
    /\ LET r == serialize_string(arg.value)
       IN  /\ output' = r.bytes
           /\ result' = r.result
    /\ pc' = "Encoded"
    /\ UNCHANGED <<build, accepts, username, password, outbound, inbound, nread, version,
                   message, session, closed, pending, runs, request, arg>>

\* serialize_list(arg).
SerializeList ==
    /\ pc = "Encode"
    /\ arg.type = "list"
    /\ LET r == serialize_list(arg.value)
       IN  /\ output' = r.bytes
           /\ result' = r.result
    /\ pc' = "Encoded"
    /\ UNCHANGED <<build, accepts, username, password, outbound, inbound, nread, version,
                   message, session, closed, pending, runs, request, arg>>

\* serialize_map(arg).
SerializeMap ==
    /\ pc = "Encode"
    /\ arg.type = "map"
    /\ LET r == serialize_map(arg.value)
       IN  /\ output' = r.bytes
           /\ result' = r.result
    /\ pc' = "Encoded"
    /\ UNCHANGED <<build, accepts, username, password, outbound, inbound, nread, version,
                   message, session, closed, pending, runs, request, arg>>

\* serialize_float(arg).
SerializeFloat ==
    /\ pc = "Encode"
    /\ arg.type = "float"
    /\ output' = serialize_float(arg.value)
    /\ result' = "Ok"
    /\ pc' = "Encoded"
    /\ UNCHANGED <<build, accepts, username, password, outbound, inbound, nread, version,
                   message, session, closed, pending, runs, request, arg>>

\* arg.serialize() on a DataKind: the bytes, or a panic on the way.
SerializeDataKind ==
    /\ pc = "Encode"
    /\ arg.type = "DataKind"
    /\ LET bytes == DataKind_serialize(arg.value)
       IN  IF panicked(bytes)
           THEN /\ output' = <<>>
                /\ result' = "Panic"
           ELSE /\ output' = bytes
                /\ result' = "Ok"
    /\ pc' = "Encoded"
    /\ UNCHANGED <<build, accepts, username, password, outbound, inbound, nread, version,
                   message, session, closed, pending, runs, request, arg>>

\* MapKind::new(arg).unwrap().serialize(), as init and run do with their maps.
SerializeMapKind ==
    /\ pc = "Encode"
    /\ arg.type = "MapKind"
    /\ LET map   == HashMap_iter(arg.value.entries, arg.value.order)
           bytes == MapKind_serialize(MapKind_new(map))
       IN  IF panicked(bytes)
           THEN /\ output' = <<>>
                /\ result' = "Panic"
           ELSE /\ output' = bytes
                /\ result' = "Ok"
    /\ pc' = "Encoded"
    /\ UNCHANGED <<build, accepts, username, password, outbound, inbound, nread, version,
                   message, session, closed, pending, runs, request, arg>>

\* serialize_node(arg).
SerializeNode ==
    /\ pc = "Encode"
    /\ arg.type = "node"
    /\ LET r == serialize_node(arg.value.node_identity, arg.value.labels,
                               arg.value.properties)
       IN  /\ output' = r.bytes
           /\ result' = r.result
    /\ pc' = "Encoded"
    /\ UNCHANGED <<build, accepts, username, password, outbound, inbound, nread, version,
                   message, session, closed, pending, runs, request, arg>>

\* serialize_relationship(arg).
SerializeRelationship ==
    /\ pc = "Encode"
    /\ arg.type = "relationship"
    /\ LET r == serialize_relationship(arg.value.rel_identity,
                                       arg.value.start_node_identity,
                                       arg.value.end_node_identity, arg.value.rel_type,
                                       arg.value.properties)
       IN  /\ output' = r.bytes
           /\ result' = r.result
    /\ pc' = "Encoded"
    /\ UNCHANGED <<build, accepts, username, password, outbound, inbound, nread, version,
                   message, session, closed, pending, runs, request, arg>>

\* serialize_path(arg).
SerializePath ==
    /\ pc = "Encode"
    /\ arg.type = "path"
    /\ LET r == serialize_path(arg.value.nodes, arg.value.relationships,
                               arg.value.sequence)
       IN  /\ output' = r.bytes
           /\ result' = r.result
    /\ pc' = "Encoded"
    /\ UNCHANGED <<build, accepts, username, password, outbound, inbound, nread, version,
                   message, session, closed, pending, runs, request, arg>>

\* serialize_unbound_relationship(arg).
SerializeUnboundRelationship ==
    /\ pc = "Encode"
    /\ arg.type = "unbound_relationship"
    /\ LET r == serialize_unbound_relationship(arg.value.rel_identity, arg.value.rel_type,
                                               arg.value.properties)
       IN  /\ output' = r.bytes
           /\ result' = r.result
    /\ pc' = "Encoded"
    /\ UNCHANGED <<build, accepts, username, password, outbound, inbound, nread, version,
                   message, session, closed, pending, runs, request, arg>>

CodecNext ==
    \/ SerializeInteger
    \/ SerializeString
    \/ SerializeList
    \/ SerializeMap
    \/ SerializeFloat
    \/ SerializeDataKind
    \/ SerializeMapKind
    \/ SerializeNode
    \/ SerializeRelationship
    \/ SerializePath
    \/ SerializeUnboundRelationship

SpecCodec == CodecInit /\ [][CodecNext]_vars

(***************************************************************************)
(* SpecFraming: send_message applied to one message on a fresh stream, the *)
(* bytes it wrote handed back as the inbound stream, and read_message      *)
(* applied to them.                                                        *)
(***************************************************************************)
MaxChunks == 2
MaxTail == 2

\* Message lengths around every multiple of the chunk size.
FramingLengths == {k * U16_MAX + t : k \in 0..MaxChunks, t \in 0..MaxTail}

\* Messages of those lengths: all zero bytes, all 'A', 'A's ending in a 'B',
\* and a 'B' followed by zero bytes.
FramingMessages ==
    UNION {{Fill(\h00, n), Fill(\h41, n),
            Cat(Fill(\h41, n - 1), Fill(\h42, IF n > 0 THEN 1 ELSE 0)),
            Cat(Fill(\h42, IF n > 0 THEN 1 ELSE 0), Fill(\h00, n - 1))} :
           n \in FramingLengths}

FramingInit ==
    /\ pc = "Send"
    /\ arg \in FramingMessages
    /\ username = <<>>
    /\ password = <<>>
    /\ outbound = <<>>
    /\ inbound = <<>>
    /\ nread = 0
    /\ version = -1
    /\ message = <<>>
    /\ result = "none"
    /\ session = TRUE
    /\ closed = FALSE
    /\ pending = 0
    /\ runs = 0
    /\ request = "none"
    /\ output = <<>>
    /\ build \in Builds
    /\ accepts = None

\* BoltSession::send_message(arg).
SendMessage ==
    /\ pc = "Send"
    /\ outbound' = send_message(outbound, arg)
    /\ result' = "Ok"
    /\ pc' = "Sent"
    /\ UNCHANGED <<build, accepts, username, password, inbound, nread, version, message, session,
                   closed, pending, runs, request, arg, output>>

\* The bytes written come back as the inbound stream, which then ends.
Loopback ==
    /\ pc = "Sent"
    /\ inbound' = outbound
    /\ result' = "none"
    /\ pc' = "Looped"
    /\ UNCHANGED <<build, accepts, username, password, outbound, nread, version, message, session,
                   closed, pending, runs, request, arg, output>>

\* BoltSession::read_message on that stream: Ok(message), or the error of
\* the read_exact that found the stream at its end.
ReadMessage ==
    /\ pc = "Looped"
    /\ LET r == read_message(inbound)
       IN  /\ result' = IF r.ok THEN "Ok" ELSE "Err"
           /\ message' = IF r.ok THEN r.message ELSE <<>>
           /\ inbound' = r.rest
    /\ nread' = nread + (BLen(inbound) - BLen(inbound'))
    /\ pc' = "ReadDone"
    /\ UNCHANGED <<build, accepts, username, password, outbound, version, session, closed, pending,
                   runs, request, arg, output>>

FramingNext ==
    \/ SendMessage
    \/ Loopback
    \/ ReadMessage

SpecFraming == FramingInit /\ [][FramingNext]_vars

(***************************************************************************)
(* SpecInbound: a peer sends one message in chunks, and possibly a second  *)
(* one behind it, and read_message is applied to the stream twice.         *)
(***************************************************************************)
MaxInboundChunks == 2

\* Chunk payloads: one byte, two zero bytes (which look like a zero header),
\* a Success message, a 'B' and zero bytes, and a full chunk of 65535 bytes.
Payloads ==
    {Fill(\h41, 1), Fill(\h00, 2), MSG_SUCCESS, Cat(Fill(\h42, 1), Fill(\h00, 3)),
     Fill(\h41, U16_MAX)}

\* The sequences of up to n payloads.
RECURSIVE PayloadSeqs(_)
PayloadSeqs(n) ==
    IF n = 0 THEN {<<>>}
    ELSE PayloadSeqs(n - 1)
             \cup {Append(cs, p) : cs \in {c \in PayloadSeqs(n - 1) : Len(c) = n - 1},
                                   p \in Payloads}

\* A peer's framing of a message sent as the chunks cs: each chunk behind its
\* length, then the zero header.
RECURSIVE InboundFrame(_)
InboundFrame(cs) ==
    IF cs = <<>> THEN write_u16(0)
    ELSE Cat(Cat(write_u16(BLen(Head(cs))), Head(cs)), InboundFrame(Tail(cs)))

\* arg is [first, second]: the chunks of the message, and Some chunks of the
\* message behind it or None.
InboundInit ==
    /\ pc = "Peer"
    /\ arg \in [first : PayloadSeqs(MaxInboundChunks),
                second : {None} \cup {Some(cs) : cs \in PayloadSeqs(1)}]
    /\ username = <<>>
    /\ password = <<>>
    /\ outbound = <<>>
    /\ inbound = <<>>
    /\ nread = 0
    /\ version = -1
    /\ message = <<>>
    /\ result = "none"
    /\ session = TRUE
    /\ closed = FALSE
    /\ pending = 0
    /\ runs = 0
    /\ request = "none"
    /\ output = <<>>
    /\ build \in Builds
    /\ accepts = None

\* The peer's bytes arrive.
PeerSends ==
    /\ pc = "Peer"
    /\ inbound' = Cat(InboundFrame(arg.first),
                      IF arg.second = None THEN <<>> ELSE InboundFrame(unwrap(arg.second)))
    /\ pc' = "Arrived"
    /\ UNCHANGED <<build, accepts, username, password, outbound, nread, version, message, result,
                   session, closed, pending, runs, request, arg, output>>

\* BoltSession::read_message, the first call.
ReadFirst ==
    /\ pc = "Arrived"
    /\ LET r == read_message(inbound)
       IN  /\ result' = IF r.ok THEN "Ok" ELSE "Err"
           /\ message' = IF r.ok THEN r.message ELSE <<>>
           /\ inbound' = r.rest
    /\ nread' = nread + (BLen(inbound) - BLen(inbound'))
    /\ pc' = "ReadFirst"
    /\ UNCHANGED <<build, accepts, username, password, outbound, version, session, closed, pending,
                   runs, request, arg, output>>

\* BoltSession::read_message, the next call on the same stream.
ReadSecond ==
    /\ pc = "ReadFirst"
    /\ LET r == read_message(inbound)
       IN  /\ result' = IF r.ok THEN "Ok" ELSE "Err"
           /\ message' = IF r.ok THEN r.message ELSE <<>>
           /\ inbound' = r.rest
    /\ nread' = nread + (BLen(inbound) - BLen(inbound'))
    /\ pc' = "ReadSecond"
    /\ UNCHANGED <<build, accepts, username, password, outbound, version, session, closed, pending,
                   runs, request, arg, output>>

InboundNext ==
    \/ PeerSends
    \/ ReadFirst
    \/ ReadSecond

SpecInbound == InboundInit /\ [][InboundNext]_vars

(***************************************************************************)
(* SpecShortWrite: the handshake and one send_message on a socket that     *)
(* may take only part of a buffer in one write call.                       *)
(***************************************************************************)

\* What the socket takes per write call: everything, or at most 1, 2, 3, 4,
\* 1024 or 65535 bytes.
AcceptInputs == {None} \cup {Some(n) : n \in {1, 2, 3, 4, 1024, U16_MAX}}

\* The messages sent: a few bytes, a full chunk, a chunk and a byte, and the
\* Run message of "RETURN 1".
ShortWriteMessages ==
    {Fill(\h41, n) : n \in {1, 2, 5, U16_MAX, U16_MAX + 1}}
        \cup {DataKind_serialize(run_message(Bytes(<<82, 69, 84, 85, 82, 78, 32, 49>>)))}

ShortWriteInit ==
    /\ pc = "Start"
    /\ arg \in ShortWriteMessages
    /\ accepts \in AcceptInputs
    /\ build \in Builds
    /\ username = <<>>
    /\ password = <<>>
    /\ outbound = <<>>
    /\ inbound = <<>>
    /\ nread = 0
    /\ version = -1
    /\ message = <<>>
    /\ result = "none"
    /\ session = FALSE
    /\ closed = FALSE
    /\ pending = 0
    /\ runs = 0
    /\ request = "none"
    /\ output = <<>>

\* handshake, up to its read_exact: every write returned Ok(n) and try!
\* dropped the n.
HandshakeWrites ==
    /\ pc = "Start"
    /\ outbound' = handshake_request(outbound)
    /\ pc' = "Handshake"
    /\ UNCHANGED <<build, accepts, username, password, inbound, nread, version, message, result,
                   session, closed, pending, runs, request, arg, output>>

\* handshake from its read_exact on, the peer having answered with a
\* version: Ok(()) unless the version is 0.
HandshakeReads ==
    /\ pc = "Handshake"
    /\ \E v \in {0, 1} :
           /\ version' = v
           /\ IF v = 0
              THEN /\ result' = "Panic"
                   /\ pc' = "Done"
                   /\ closed' = TRUE
                   /\ session' = FALSE
              ELSE /\ result' = "Ok"
                   /\ pc' = "Session"
                   /\ closed' = FALSE
                   /\ session' = TRUE
    /\ nread' = nread + 4
    /\ UNCHANGED <<build, accepts, username, password, outbound, inbound, message, pending, runs,
                   request, arg, output>>

\* BoltSession::send_message(arg): every write returned Ok(n), so the loop
\* ran to its end and the function returned Ok(()).  output keeps the bytes
\* on the wire before the call.
SendMessageShort ==
    /\ pc = "Session"
    /\ output' = outbound
    /\ outbound' = send_message(outbound, arg)
    /\ result' = "Ok"
    /\ pc' = "Sent"
    /\ UNCHANGED <<build, accepts, username, password, inbound, nread, version, message, session,
                   closed, pending, runs, request, arg>>

ShortWriteNext ==
    \/ HandshakeWrites
    \/ HandshakeReads
    \/ SendMessageShort

SpecShortWrite == ShortWriteInit /\ [][ShortWriteNext]_vars

(***************************************************************************)
(* Properties.                                                             *)
(***************************************************************************)

\* The chunk headers of a written byte string, read off in order: each
\* header says how many bytes to skip to the next one.  -1 stands for a
\* header or a chunk cut short by the end of the bytes.
RECURSIVE ChunkHeaders(_)
ChunkHeaders(w) ==
    IF w = <<>> THEN <<>>
    ELSE IF BLen(w) < 2 THEN <<-1>>
    ELSE LET len == read_u16(Take(w, 2))
         IN  IF BLen(w) - 2 < len THEN <<-1>>
             ELSE <<len>> \o ChunkHeaders(Drop(w, 2 + len))

\* C1: the bytes send_message writes for any message hold exactly one zero
\* chunk header, which is their last two bytes, and every header before it
\* is between 1 and 0xFFFF.
C1_OneTerminatorLast ==
    pc = "Sent" =>
        LET h == ChunkHeaders(outbound)
        IN  /\ Len(h) >= 1
            /\ h[Len(h)] = 0
            /\ Drop(outbound, BLen(outbound) - 2) = Bytes(<<\h00, \h00>>)
            /\ \A i \in 1..(Len(h) - 1) : h[i] >= 1 /\ h[i] <= 65535

\* C2: read_message applied to the bytes send_message(M) wrote returns M
\* and leaves none of those bytes unread.
C2_ChunkingRoundTrip ==
    pc = "ReadDone" => /\ result = "Ok"
                       /\ message = arg
                       /\ inbound = <<>>

\* The 20 bytes of a v1-only handshake: magic, version 1, three zero slots.
HandshakeBytes ==
    Bytes(<<\h60, \h60, \hB0, \h17,  0, 0, 0, 1,  0, 0, 0, 0,  0, 0, 0, 0,  0, 0, 0, 0>>)

C4_ZeroVersionReturnsError ==
    version = 0 => /\ result = "Err"
                   /\ ~session
                   /\ closed

\* C5: every handshake response other than 0 and 1 fails the handshake with
\* an error and creates no session.
C5_OnlyVersionOneAccepted ==
    (version # -1 /\ version # 0 /\ version # 1) => /\ result = "Err"
                                                     /\ ~session

\* C6: connect returns a session only when the response to Init is Success.
C6_SessionOnlyAfterSuccess ==
    (runs = 0 /\ result = "Ok" /\ session) => Signature(message) = \h70

\* C7: a run answered with Failure does not return a success result.
C7_RunFailureSurfaced ==
    (pc = "Ready" /\ request = "Run" /\ Signature(message) = \h7F) => result # "Ok"

\* C8: a run call made right after a run that was answered with Failure
\* (nothing has acknowledged the failure) writes no byte to the stream.
C8_FailedSessionWritesNothing ==
    [][(pc = "Ready" /\ request = "Run" /\ Signature(message) = \h7F /\ pc' = "Run")
          => outbound' = outbound]_vars

\* The Init message whose token is scheme "basic", principal u, credentials p,
\* its map iterating in `order`.
ClaimedInit(u, p, order) ==
    LET token ==
            HashMap_insert(
                HashMap_insert(
                    HashMap_insert(HashMap_new, StringKind_new(STR_scheme),
                                   DataKind_String(STR_basic)),
                    StringKind_new(STR_principal), DataKind_String(u)),
                StringKind_new(STR_credentials), DataKind_String(p))
    IN  [kind |-> "Structure",
         value |-> [kind |-> "Message",
                    value |-> [kind |-> "Init",
                               string |-> StringKind_new(STR_client_name),
                               map |-> MapKind_new(HashMap_iter(token, order))]]]

\* C9: the Init message on the wire carries the token {scheme: "basic",
\* principal: username, credentials: password} of connect's arguments.
C9_InitCarriesCallerCredentials ==
    pc = "Init" =>
        \E order \in IterationOrders(3) :
            outbound = send_message(HandshakeBytes,
                                    DataKind_serialize(ClaimedInit(username, password, order)))

\* The i64 that an encoded integer stands for: a lone byte is the number
\* itself, a marker is followed by 1, 2, 4 or 8 bytes; all two's complement,
\* big-endian.  <<>> when the bytes are no encoded integer.
DecodeInteger(bytes) ==
    LET n  == BLen(bytes)
        b(i) == At(bytes, i)
        s8(x)  == IF x >= 128 THEN x - 256 ELSE x
        s16(x) == IF x >= 32768 THEN x - 65536 ELSE x
    IN  IF n = 1 /\ (b(1) <= 127 \/ b(1) >= 240) THEN I64(s8(b(1)))
        ELSE IF n = 2 /\ b(1) = \hC8 THEN I64(s8(b(2)))
        ELSE IF n = 3 /\ b(1) = \hC9 THEN I64(s16(b(2) * 256 + b(3)))
        ELSE IF n = 5 /\ b(1) = \hCA
        THEN <<IF b(2) >= 128 THEN -1 ELSE 0, IF b(2) >= 128 THEN 65535 ELSE 0,
               b(2) * 256 + b(3), b(4) * 256 + b(5)>>
        ELSE IF n = 9 /\ b(1) = \hCB
        THEN <<s16(b(2) * 256 + b(3)), b(4) * 256 + b(5), b(6) * 256 + b(7),
               b(8) * 256 + b(9)>>
        ELSE <<>>

\* The length in bytes of the narrowest encoding whose range holds v.
NarrowestLength(v) ==
    IF I64_In(I64(-16), v, I64(127)) THEN 1
    ELSE IF I64_In(I64(-128), v, I64(-17)) THEN 2
    ELSE IF I64_In(I64(-32768), v, I64(32767)) THEN 3
    ELSE IF I64_In(I32_MIN, v, I32_MAX) THEN 5
    ELSE 9

\* C10: serialize_integer returns Ok for every i64, with the narrowest
\* encoding whose range holds the value, which decodes to the value; 127 is
\* 7F, -16 is F0, -17 is C8 EF, 128 is C9 00 80, -129 is C9 FF 7F and 32768
\* is CA 00 00 80 00.
C10_IntegerNarrowestEncoding ==
    (pc = "Encoded" /\ arg.type = "integer") =>
        /\ result = "Ok"
        /\ BLen(output) = NarrowestLength(arg.value)
        /\ DecodeInteger(output) = arg.value
        /\ arg.value = I64(127)   => output = Bytes(<<\h7F>>)
        /\ arg.value = I64(-16)   => output = Bytes(<<\hF0>>)
        /\ arg.value = I64(-17)   => output = Bytes(<<\hC8, \hEF>>)
        /\ arg.value = I64(128)   => output = Bytes(<<\hC9, \h00, \h80>>)
        /\ arg.value = I64(-129)  => output = Bytes(<<\hC9, \hFF, \h7F>>)
        /\ arg.value = I64(32768) => output = Bytes(<<\hCA, \h00, \h00, \h80, \h00>>)

\* C10's case: -129, just below the Int8 range, has been encoded in three bytes.
C10_Witness ==
    /\ pc = "Encoded"
    /\ arg.type = "integer"
    /\ arg.value = I64(-129)
    /\ output = Bytes(<<\hC9, \hFF, \h7F>>)

\* The length header at the front of an encoded string, list or map: the
\* kind and the length class its marker names, the length it states, and
\* the number of bytes it takes.
LengthHeader(bytes) ==
    LET m == IF bytes = <<>> THEN -1 ELSE At(bytes, 1)
        b(i) == IF BLen(Take(bytes, i)) = i THEN At(bytes, i) ELSE -1
        kind == IF m \in 128..143 \/ m \in 208..210 THEN "string"
                ELSE IF m \in 144..159 \/ m \in 212..214 THEN "list"
                ELSE IF m \in 160..175 \/ m \in 216..218 THEN "map"
                ELSE "other"
        class == IF m \in 128..175 THEN "tiny"
                 ELSE IF m \in {208, 212, 216} THEN "8-bit"
                 ELSE IF m \in {209, 213, 217} THEN "16-bit"
                 ELSE IF m \in {210, 214, 218} THEN "32-bit"
                 ELSE "none"
    IN  [kind |-> kind,
         class |-> class,
         length |-> CASE class = "tiny"   -> I64(m % 16)
                      [] class = "8-bit"  -> I64(b(2))
                      [] class = "16-bit" -> I64(b(2) * 256 + b(3))
                      [] class = "32-bit" -> <<0, 0, b(2) * 256 + b(3), b(4) * 256 + b(5)>>
                      [] OTHER            -> I64(-1),
         size |-> CASE class = "tiny"   -> 1
                    [] class = "8-bit"  -> 2
                    [] class = "16-bit" -> 3
                    [] class = "32-bit" -> 5
                    [] OTHER            -> 0]

\* The smallest length class that fits a length up to 2^32 - 1.
SmallestClass(n) ==
    IF I64_Le(n, I64(15)) THEN "tiny"
    ELSE IF I64_Le(n, I64(255)) THEN "8-bit"
    ELSE IF I64_Le(n, I64(65535)) THEN "16-bit"
    ELSE "32-bit"

\* The length of the string, list or map that is SpecCodec's argument.
ArgLength == usize_len(IF arg.type = "map" THEN arg.value.entries ELSE arg.value)

\* C11: serialize_string, serialize_list and serialize_map give a value of
\* up to 2^32 - 1 entries a header of its own kind, in the smallest length
\* class that fits (tiny to 15, 8-bit to 255, 16-bit to 65535, 32-bit
\* above), stating the length big-endian, and a string's bytes follow it;
\* a longer value gets an error and no bytes.  15 'A's are 8F and the 'A's,
\* 16 'A's are D0 10 and the 'A's, the empty list is 90, the empty map A0.
C11_SmallestLengthClass ==
    (pc = "Encoded" /\ arg.type \in {"string", "list", "map"}) =>
        IF I64_Le(ArgLength, U32_MAX)
        THEN /\ result = "Ok"
             /\ LengthHeader(output).kind = arg.type
             /\ LengthHeader(output).class = SmallestClass(ArgLength)
             /\ LengthHeader(output).length = ArgLength
             /\ arg.type = "string" => Drop(output, LengthHeader(output).size) = arg.value
             /\ (arg.type = "string" /\ arg.value = Fill(\h41, 15))
                    => output = Cat(Bytes(<<\h8F>>), Fill(\h41, 15))
             /\ (arg.type = "string" /\ arg.value = Fill(\h41, 16))
                    => output = Cat(Bytes(<<\hD0, \h10>>), Fill(\h41, 16))
             /\ (arg.type = "list" /\ arg.value = <<>>) => output = Bytes(<<\h90>>)
             /\ (arg.type = "map" /\ arg.value.entries = <<>>) => output = Bytes(<<\hA0>>)
        ELSE /\ result = "Err"
             /\ output = <<>>

\* C11's case: a string of 65536 bytes, the first length of the 32-bit
\* class, has been encoded with the header D2 00 01 00 00.
C11_Witness ==
    /\ pc = "Encoded"
    /\ arg.type = "string"
    /\ ArgLength = I64(65536)
    /\ Take(output, 5) = Bytes(<<\hD2, \h00, \h01, \h00, \h00>>)

\* The first bytes PackStream gives each kind of value.
OwnMarkers(d) ==
    CASE d.kind = "Null"      -> {\hC0}
      [] d.kind = "Boolean"   -> {\hC2, \hC3}
      [] d.kind = "Integer"   -> IF d.value.kind = "TinyInt" THEN (\h00..\h7F) \cup (\hF0..\hFF)
                                 ELSE IF d.value.kind = "Int8" THEN {\hC8}
                                 ELSE IF d.value.kind = "Int16" THEN {\hC9}
                                 ELSE IF d.value.kind = "Int32" THEN {\hCA}
                                 ELSE {\hCB}
      [] d.kind = "Float"     -> {\hC1}
      [] d.kind = "String"    -> IF d.value.kind = "TinyString" THEN \h80..\h8F
                                 ELSE {\hD0, \hD1, \hD2}
      [] d.kind = "List"      -> IF d.value.kind = "TinyList" THEN \h90..\h9F
                                 ELSE {\hD4, \hD5, \hD6}
      [] d.kind = "Map"       -> IF d.value.kind = "TinyMap" THEN \hA0..\hAF
                                 ELSE {\hD8, \hD9, \hDA}
      [] d.kind = "Structure" -> (\hB0..\hBF) \cup {\hDC, \hDD}

\* C12: every DataKind value serializes (no panic) to bytes whose first one
\* is a marker of the value's own kind: 00..7F or F0..FF for a TinyInt,
\* 80..8F for a TinyString, 90..9F for a TinyList, A0..AF for a TinyMap,
\* B0..BF, DC or DD for a structure.
C12_FirstByteIsOwnMarker ==
    (pc = "Encoded" /\ arg.type = "DataKind") =>
        /\ result = "Ok"
        /\ At(output, 1) \in OwnMarkers(arg.value)

\* C13: a map is encoded with its pairs in the order the caller inserted
\* them, so that two maps with the same insertions encode to the same bytes:
\* serialize_map's and MapKind::serialize's output is the encoding of the
\* entries in insertion order.
C13_MapInCallerOrder ==
    /\ (pc = "Encoded" /\ arg.type = "map" /\ result = "Ok" /\ Len(arg.value.entries) > 1) =>
           output = serialize_map([entries |-> arg.value.entries,
                                   order |-> [i \in 1..Len(arg.value.entries) |-> i]]).bytes
    /\ (pc = "Encoded" /\ arg.type = "MapKind" /\ result = "Ok") =>
           output = MapKind_serialize(MapKind_new(arg.value.entries))

\* The encoding of what a structure's fields hold, one after another, as the
\* encoders of the fields give it.
RECURSIVE Fields(_)
Fields(parts) ==
    IF parts = <<>> THEN <<>>
    ELSE Cat(parts[1].bytes, Fields(Tail(parts)))

\* C14: a structure goes out as its header with the count the protocol gives
\* its signature, the signature, and that many fields: B3 4E and 3 fields
\* for a Node, B5 52 and 5 for a Relationship, B3 50 and 3 for a Path, B3 72
\* and 3 for an UnboundRelationship; a structure of DataKind::serialize
\* carries after its header at least one byte for each field it counts.
C14_StructureFieldCount ==
    (pc = "Encoded" /\ result = "Ok") =>
        LET v == arg.value
        IN  /\ arg.type = "node" =>
                output = Cat(Bytes(<<\hB3, \h4E>>),
                             Fields(<<serialize_integer_u64(v.node_identity),
                                      serialize_list(v.labels),
                                      serialize_map(v.properties)>>))
            /\ arg.type = "relationship" =>
                output = Cat(Bytes(<<\hB5, \h52>>),
                             Fields(<<serialize_integer_u64(v.rel_identity),
                                      serialize_integer_u64(v.start_node_identity),
                                      serialize_integer_u64(v.end_node_identity),
                                      serialize_string(v.rel_type),
                                      serialize_map(v.properties)>>))
            /\ arg.type = "path" =>
                output = Cat(Bytes(<<\hB3, \h50>>),
                             Fields(<<serialize_list(v.nodes), serialize_list(v.relationships),
                                      serialize_list(v.sequence)>>))
            /\ arg.type = "unbound_relationship" =>
                output = Cat(Bytes(<<\hB3, \h72>>),
                             Fields(<<serialize_integer_u64(v.rel_identity),
                                      serialize_string(v.rel_type),
                                      serialize_map(v.properties)>>))
            /\ (arg.type = "DataKind" /\ v.kind = "Structure") =>
                LET header == StructureKind_get_header(v.value)
                IN  BLen(output) - BLen(header) >= StructureKind_get_size(v.value)

\* The f64 whose big-endian IEEE-754 representation 8 bytes are.
DecodeFloat(bytes) ==
    LET b(i) == At(bytes, i)
    IN  [sign |-> b(1) \div 128,
         exponent |-> ((b(1) % 128) * 16) + (b(2) \div 16),
         fraction |-> <<b(2) % 16, b(3) * 256 + b(4), b(5) * 256 + b(6), b(7) * 256 + b(8)>>]

\* C15: a Float encodes to exactly 9 bytes, C1 and the value's 8 bytes
\* big-endian, by serialize_float and by DataKind::serialize alike.
C15_FloatNineBytes ==
    (/\ pc = "Encoded"
     /\ \/ arg.type = "float"
        \/ arg.type = "DataKind" /\ arg.value.kind = "Float") =>
        LET value == IF arg.type = "float" THEN arg.value ELSE arg.value.value
        IN  /\ result = "Ok"
            /\ BLen(output) = 9
            /\ At(output, 1) = \hC1
            /\ DecodeFloat(Drop(output, 1)) = value

\* The requests the session has sent since the handshake: Init and the runs.
RequestsSent == IF request = "none" THEN 0 ELSE 1 + runs

\* The response messages the server has sent: one for each request but the
\* pending ones.
ResponsesSent == IF request = "none" THEN 0 ELSE RequestsSent - pending

\* The response messages still unread on the stream: its zero headers.
ResponsesUnread ==
    LET headers == ChunkHeaders(inbound)
    IN  Cardinality({i \in 1..Len(headers) : headers[i] = 0})

\* The response messages read_message has consumed.
ResponsesRead == ResponsesSent - ResponsesUnread

\* C16: responses are paired with requests in order: when init or run
\* returns Ok, the message it read is the response to its own request: as
\* many responses have been read as requests were sent.
C16_ResponsesPairedFIFO ==
    (pc = "Ready" /\ result = "Ok") => ResponsesRead = RequestsSent

\* The payloads cs one after another.
RECURSIVE Concat(_)
Concat(cs) == IF cs = <<>> THEN <<>> ELSE Cat(Head(cs), Concat(Tail(cs)))

\* C17: on a stream of non-empty chunks and a zero header, read_message
\* returns the chunks' payloads joined in order and consumes the bytes up to
\* and including that zero header, no more: what lies behind it is untouched,
\* and the next read_message returns the message behind it.
C17_ReadMessageReassembles ==
    /\ pc = "ReadFirst" =>
           /\ result = "Ok"
           /\ message = Concat(arg.first)
           /\ nread = BLen(InboundFrame(arg.first))
           /\ inbound = (IF arg.second = None THEN <<>> ELSE InboundFrame(unwrap(arg.second)))
    /\ (pc = "ReadSecond" /\ arg.second # None) =>
           /\ result = "Ok"
           /\ message = Concat(unwrap(arg.second))
           /\ inbound = <<>>
           /\ nread = BLen(InboundFrame(arg.first)) + BLen(InboundFrame(unwrap(arg.second)))

\* Two chunks, the first of two zero bytes, then a second message, read.
C17_Witness ==
    /\ pc = "ReadSecond"
    /\ Len(arg.first) = 2
    /\ arg.first[1] = Fill(\h00, 2)
    /\ arg.first[2] = Fill(\h41, U16_MAX)
    /\ arg.second = Some(<<MSG_SUCCESS>>)
    /\ message = MSG_SUCCESS
    /\ nread = 65550

\* The bytes send_message means to put on the wire for the chunks cs: each
\* chunk behind its length and before a zero header.
RECURSIVE IntendedFrame(_)
IntendedFrame(cs) ==
    IF cs = <<>> THEN <<>>
    ELSE Cat(Cat(Cat(write_u16(BLen(Head(cs))), Head(cs)), Bytes(<<\h0, \h0>>)),
             IntendedFrame(Tail(cs)))

\* C18: when the handshake or send_message has returned Ok, all the bytes it
\* meant to send are on the wire in order, whatever the socket took per
\* write call: the 20 handshake bytes, and behind what was there before the
\* call, the message's chunks with their headers.
C18_OkMeansAllWritten ==
    /\ (pc = "Session" /\ result = "Ok") => outbound = HandshakeBytes
    /\ (pc = "Sent" /\ result = "Ok") =>
           outbound = Cat(output, IntendedFrame(chunks(arg, U16_MAX)))

====
